---- MODULE Spec2Model ----
(***************************************************************************)
(* ObservableTree (otree): a change-notification layer over a hierarchical *)
(* document.  The document adapter is the Json11Trait of test/test.cpp;    *)
(* the registry tree is SignalMgr, a registry is ModificationSignal, a     *)
(* cancellation handle is ModificationSignal::Connection.                  *)
(*                                                                         *)
(* Spec    : the API used from one thread, one action per call.            *)
(* SpecMT  : the API used from several threads with a real mutex, one      *)
(*           action per atomic step between lock operations.               *)
(***************************************************************************)
EXTENDS Integers, Sequences, FiniteSets, TLC

\* ------------------------------------------------------------------ bounds
MaxInt == 0
MaxRegs == 3
MaxSigs == 3
MaxHeld == 1
MaxThreads == 2
MaxRegsMT == 2
MaxPathLen == 3

\* ------------------------------------------------------- document values
\* json11::Json as used by Json11Trait: null, a number, or an object.
JNull == [t |-> "null", v |-> 0, o |-> <<>>]
JInt(n) == [t |-> "int", v |-> n, o |-> <<>>]
JObj(f) == [t |-> "obj", v |-> 0, o |-> f]

\* json11's operator[](key): the member, or null when absent or not an object.
JIndex(j, key) == IF j.t = "obj" /\ key \in DOMAIN j.o THEN j.o[key] ELSE JNull

emptyInverted(j) == j.t # "null"
empty(j) == j.t = "null"

equal(j1, j2) == j1 = j2

get(j, key) == JIndex(j, key)

\* Json11Trait::get(j, Path): index key by key, stop at the first null.
RECURSIVE getPath(_, _)
getPath(j, kp) ==
    IF kp = <<>> THEN j
    ELSE LET jret == JIndex(j, Head(kp))
         IN IF jret.t = "null" THEN jret ELSE getPath(jret, Tail(kp))

\* std::map<KeyType, ...> iterates its keys in this order.
KeyOrder == <<"a", "b", "c", "d">>

\* The documents of the model: a leaf, or {a: leaf | {b: leaf | {c: leaf}, d: leaf}}.
Leaves == {JNull} \cup {JInt(n) : n \in 0..MaxInt}
ValuesAB == Leaves \cup {JObj([k \in {"c"} |-> vc]) : vc \in Leaves}
ValuesA == Leaves \cup
    {JObj([k \in {"b", "d"} |-> IF k = "b" THEN vb ELSE vd]) : vb \in ValuesAB, vd \in Leaves}
Docs == Leaves \cup {JObj([k \in {"a"} |-> va]) : va \in ValuesA}

\* ------------------------------------------------------------------ paths
PathA == <<"a">>
PathAB == <<"a", "b">>
PathABC == <<"a", "b", "c">>
PathAD == <<"a", "d">>
\* The paths the client registers at, and the nodes those paths run through.
RegPaths == {PathAB, PathABC, PathAD}
PathInputs == RegPaths \cup {<<>>}

IsPrefix(p, q) == Len(p) <= Len(q) /\ SubSeq(q, 1, Len(p)) = p
IsProperPrefix(p, q) == Len(p) < Len(q) /\ IsPrefix(p, q)
Prefixes(p) == {SubSeq(p, 1, n) : n \in 1..Len(p)}
NodePaths == UNION {Prefixes(p) : p \in RegPaths}

ValuesAt(p) == IF p = PathA THEN ValuesA ELSE IF p = PathAB THEN ValuesAB ELSE Leaves

\* ------------------------------------------------------------------ state
VARIABLES
    root,       \* ObservableTree::root_
    nodes,      \* the paths that have an entry in some SignalMgr::signalsMap_
    sigPtr,     \* MySignalAndChild::signalPtr_ of each node: a registry id, 0 = null
    regs,       \* each ModificationSignal: impl_ (none/single/multi) and its slots
    regPath,    \* the path each ModificationSignal was created for
    nextSig,    \* the next fresh registry id
    held,       \* the shared_ptrs returned by modificationSignal the client still holds
    handle,     \* each Connection: signalRef_ (sig), slotID_ (slot), issuing impl (mode)
    cbKind,     \* what each registered callback does when invoked
    nextCb,     \* the next fresh callback id
    log,        \* the callback invocations made by the most recent call, in order
    lastCall,   \* the most recent API call and how it exited
    crashed,    \* the process ended by undefined behaviour
    adapterSets, \* whether the adapter's set(document, path, value) takes effect
    thr,        \* each thread: where it is in the call it is making
    docLock,    \* ObservableTree::mutex_: the thread that owns it, 0 = none
    sigLock,    \* each ModificationSignal::mutex_: the thread that owns it
    cancelled,  \* the callbacks whose handle's cancel() has returned
    notified,   \* each callback: the new value of the last notification a
                \* replace gave it, while only successful replaces notified it
    pathIn,     \* the characters handed to Path's constructor
    pathKeys    \* Path::keys_ once the constructor has run

mtVars == <<thr, docLock, sigLock, cancelled, notified>>
pathVars == <<pathIn, pathKeys>>
vars == <<root, nodes, sigPtr, regs, regPath, nextSig, held, handle, cbKind,
          nextCb, log, lastCall, crashed, adapterSets, mtVars, pathVars>>

SigIds == 1..MaxSigs
CbIds == 1..MaxRegs
\* The Connection objects: the one each registration returned, named by the
\* registration, and one more that a Connection can be moved into.
Moved == MaxRegs + 1
HandleIds == CbIds \cup {Moved}
NoSig == 0
Threads == 1..MaxThreads
NoThread == 0
NoImpl == [impl |-> "none", slots |-> <<>>]
SlotIDInvalid == 0
NoHandle == [sig |-> NoSig, slot |-> SlotIDInvalid, mode |-> "none"]
\* Connection::connected().
connected(hd) == hd.slot # SlotIDInvalid
\* The record of a call: what was called, on which handle or path, the root
\* and the handle's registry as they were before it, its argument, its exit.
Call(op, h, path, old, arg, pre, failed) ==
    [op |-> op, h |-> h, path |-> path, old |-> old, arg |-> arg, pre |-> pre,
     failed |-> failed]
NoCall == Call("none", 0, <<>>, JNull, JNull, NoImpl, FALSE)
\* A callback no notification of an unbroken run of replaces has reached.
NotNotified == [seen |-> FALSE, new |-> JNull]
\* A thread that is in no call.
IdleThr == [pc |-> "idle", op |-> "none", h |-> 0, path |-> <<>>, sig |-> NoSig,
            i |-> 0, visits |-> <<>>, arg |-> JNull, log |-> <<>>, failed |-> FALSE]

\* A ModificationSignal lives while some shared_ptr owns it.
alive(sp, hd, r) == r \in hd \/ \E p \in NodePaths : sp[p] = r

\* ---------------------------------------------------- ModificationSignal
implConnected(rg) == rg.slots # <<>>

signalConnected(rg) == rg.impl # "none" /\ implConnected(rg)

stealSlotsCopy(rg) == [i \in 1..Len(rg.slots) |-> [rg.slots[i] EXCEPT !.addr = 0]]
stealSlots(rg) == rg.slots

\* MultiImpl::connect: `slots_.emplace_back(slotID)`.
emplaceFront(slots, slot) == <<slot>> \o slots
emplaceBack(slots, slot) == Append(slots, slot)

\* ModificationSignal::connect: `impl_->type() == ImplType::Single &&
\* impl_->connected()`, the condition of the upgrade.
upgradesWhenSingle(rg) == rg.impl = "single"
upgrades(rg) == rg.impl = "single" /\ implConnected(rg)

\* ModificationSignal::connect for a non-empty callable, the new slot at addr.
connect(rg, addr, cb) ==
    LET impl1 == IF rg.impl = "none" THEN [impl |-> "single", slots |-> <<>>]
                 ELSE IF upgrades(rg)
                      THEN [impl |-> "multi", slots |-> stealSlots(rg)]
                      ELSE rg
        slot == [addr |-> addr, cb |-> cb]
    IN IF impl1.impl = "single"
       THEN [impl1 EXCEPT !.slots = <<slot>>]
       ELSE [impl1 EXCEPT !.slots = emplaceBack(impl1.slots, slot)]

FindSlot(slots, slotID) ==
    IF \E i \in 1..Len(slots) : slots[i].addr = slotID
    THEN CHOOSE i \in 1..Len(slots) :
            slots[i].addr = slotID /\ \A j \in 1..(i - 1) : slots[j].addr # slotID
    ELSE 0

EraseFrom(slots, i) == SubSeq(slots, 1, i - 1)
EraseAt(slots, i) == SubSeq(slots, 1, i - 1) \o SubSeq(slots, i + 1, Len(slots))

\* ModificationSignal::disconnect(slotID): the set of outcomes.  In Multi
\* mode slots_.erase(find_if(...)) with no match erases end(), which is
\* undefined: the process dies or the list is left as it was.
disconnect(rg, slotID) ==
    IF rg.impl = "none" THEN {[rg |-> rg, crashed |-> FALSE]}
    ELSE IF rg.impl = "single"
    THEN IF rg.slots # <<>> /\ rg.slots[1].addr = slotID
         THEN {[rg |-> [rg EXCEPT !.slots = <<>>], crashed |-> FALSE]}
         ELSE {[rg |-> rg, crashed |-> FALSE]}
    ELSE IF FindSlot(rg.slots, slotID) # 0
         THEN {[rg |-> [rg EXCEPT !.slots = EraseAt(rg.slots, FindSlot(rg.slots, slotID))],
                crashed |-> FALSE]}
         ELSE {[rg |-> rg, crashed |-> TRUE], [rg |-> rg, crashed |-> FALSE]}

\* ------------------------------------------------------------- SignalMgr
\* `if (!TraitType::empty(oldNode) || !TraitType::empty(newNode))` negated.
skipChildren(oldNode, newNode) == empty(oldNode) /\ empty(newNode)

\* `auto diff = !TraitType::equal(oldValue, newValue)`
diffOfSame(oldValue, newValue) == equal(oldValue, newValue)
diffOf(oldValue, newValue) == ~equal(oldValue, newValue)

\* What `hasChanged` becomes for one key: a changed sub-tree settles it
\* without comparing, otherwise the comparison does.
changedOf(subChanged, diff) == IF subChanged THEN TRUE ELSE diff

\* `sub->onChanged(oldValue, newValue)` runs before the key's own registry
\* is looked at: the visits below a key come first.
visitOrderParentFirst(subVisits, visit) == <<visit>> \o subVisits
visitOrder(subVisits, visit) == subVisits \o <<visit>>

\* SignalMgr::onChanged(oldNode, newNode) at the node `prefix`: the value it
\* returns and the registry visits it makes, in order.  A visit is one pass
\* of the loop body for a key: sub-tree first, then the key's own registry.
RECURSIVE onChangedPlan(_, _, _, _), onChangedKeys(_, _, _, _, _)
onChangedPlan(ns, prefix, oldNode, newNode) ==
    IF skipChildren(oldNode, newNode)
    THEN [changed |-> FALSE, visits |-> <<>>]
    ELSE onChangedKeys(ns, prefix, oldNode, newNode, 1)
onChangedKeys(ns, prefix, oldNode, newNode, i) ==
    IF i > Len(KeyOrder) THEN [changed |-> FALSE, visits |-> <<>>]
    ELSE LET key == KeyOrder[i]
             p == Append(prefix, key)
             rest == onChangedKeys(ns, prefix, oldNode, newNode, i + 1)
         IN IF p \notin ns THEN rest
            ELSE LET oldValue == get(oldNode, key)
                     newValue == get(newNode, key)
                     sub == IF \E q \in ns : IsProperPrefix(p, q)
                            THEN onChangedPlan(ns, p, oldValue, newValue)
                            ELSE [changed |-> FALSE, visits |-> <<>>]
                     diff == diffOf(oldValue, newValue)
                     visit == [path |-> p, old |-> oldValue, new |-> newValue,
                               subChanged |-> sub.changed, diff |-> diff]
                 IN [changed |-> changedOf(sub.changed, diff) \/ rest.changed,
                     visits |-> visitOrder(sub.visits, visit) \o rest.visits]

\* MultiImpl::onChanged / SingleImpl::onChanged: invoke the slots in order;
\* a callback that throws ends the pass, nothing catches it.
RECURSIVE InvokeFrom(_, _, _, _, _, _)
InvokeFrom(kinds, slots, i, old, new, lg) ==
    IF i > Len(slots) THEN [log |-> lg, failed |-> FALSE]
    ELSE LET lg2 == Append(lg, [cb |-> slots[i].cb, old |-> old, new |-> new])
         IN IF kinds[slots[i].cb] = "throws"
            THEN [log |-> lg2, failed |-> TRUE]
            ELSE InvokeFrom(kinds, slots, i + 1, old, new, lg2)

RECURSIVE InvokeAll(_, _, _, _, _)
InvokeAll(slots, i, old, new, lg) ==
    IF i > Len(slots) THEN lg
    ELSE InvokeAll(slots, i + 1, old, new,
                   Append(lg, [cb |-> slots[i].cb, old |-> old, new |-> new]))

implOnChangedCatching(kinds, rg, old, new, lg) ==
    [log |-> InvokeAll(rg.slots, 1, old, new, lg),
     failed |-> \E i \in 1..Len(rg.slots) : kinds[rg.slots[i].cb] = "throws"]
\* ModificationSignal::operator(): `if (impl_) impl_->onChanged(jOld, jNew)`.
implOnChanged(kinds, rg, old, new, lg) ==
    IF rg.impl = "none" THEN [log |-> lg, failed |-> FALSE]
    ELSE InvokeFrom(kinds, rg.slots, 1, old, new, lg)

\* What the loop body does with the key's registry (lines 348-371).
visitActionAlways(sub, sig, conn, diff) ==
    IF sig = NoSig THEN "nothing" ELSE IF conn THEN "fire" ELSE "reset"
visitAction(sub, sig, conn, diff) ==
    IF sub THEN (IF sig # NoSig THEN "fire" ELSE "nothing")
    ELSE IF sig = NoSig THEN "nothing"
    ELSE IF conn THEN (IF diff THEN "fire" ELSE "nothing")
    ELSE "reset"

\* One visit applied to st = [sigPtr, regs, log, failed].
VisitStep(kinds, hd, st, v) ==
    LET r == st.sigPtr[v.path]
        act == visitAction(v.subChanged, r, r # NoSig /\ signalConnected(st.regs[r]), v.diff)
    IN IF act = "fire"
       THEN LET res == implOnChanged(kinds, st.regs[r], v.old, v.new, st.log)
            IN [st EXCEPT !.log = res.log, !.failed = res.failed]
       ELSE IF act = "reset"
       THEN [st EXCEPT !.sigPtr[v.path] = NoSig,
                       !.regs[r] = IF r \in hd THEN @ ELSE NoImpl]
       ELSE st

RECURSIVE RunVisits(_, _, _, _, _)
RunVisits(kinds, hd, visits, i, st) ==
    IF i > Len(visits) \/ st.failed THEN st
    ELSE RunVisits(kinds, hd, visits, i + 1, VisitStep(kinds, hd, st, visits[i]))

\* SignalMgr::getSignal(path): the registry at exactly that node, or null.
getSignalNearest(ns, sp, path) ==
    IF \E q \in ns : IsPrefix(q, path) /\ sp[q] # NoSig
    THEN sp[CHOOSE q \in ns : /\ IsPrefix(q, path) /\ sp[q] # NoSig
                              /\ \A q2 \in ns : (IsPrefix(q2, path) /\ sp[q2] # NoSig)
                                                  => Len(q2) <= Len(q)]
    ELSE NoSig
getSignal(ns, sp, path) == IF path # <<>> /\ path \in ns THEN sp[path] ELSE NoSig

\* A set(document, path, value) that takes effect (PtreeTrait-like put_child).
RECURSIVE putPath(_, _, _)
putPath(j, kp, value) ==
    IF kp = <<>> THEN value
    ELSE LET f == IF j.t = "obj" THEN j.o ELSE <<>>
             k == Head(kp)
         IN JObj([x \in (DOMAIN f) \cup {k} |->
                    IF x = k THEN putPath(JIndex(j, k), Tail(kp), value) ELSE f[x]])

\* ------------------------------------------------------- heap addresses
\* A slot id is the address of a heap-allocated SlotType.  A new slot gets
\* an address never used before (named after the callback) or the address
\* of a slot freed earlier that some Connection still remembers.
LiveAddrs(rgs) == UNION {{rgs[r].slots[i].addr : i \in 1..Len(rgs[r].slots)} : r \in SigIds}
AddrChoices(rgs, hdl, c) ==
    {c} \cup ({hdl[x].slot : x \in {y \in 1..(c - 1) : connected(hdl[y])}} \ LiveAddrs(rgs))

\* The registries that die when the owners become (sp, hd).
Reap(rgs, sp, hd) == [r \in SigIds |-> IF alive(sp, hd, r) THEN rgs[r] ELSE NoImpl]

\* ------------------------------------------------------------------ Path
\* The characters of a path string; NUL is the terminator of a char array.
NUL == "\\0"
Sep == "/"
\* keys_ before the constructor has run.
NoKeys == [done |-> FALSE, keys |-> <<>>]

keepSegment(path, istart, sep) == path[istart] # sep

\* The while loop of Path::toKeys over [begin(path), end(path)): the keys
\* collected and where the last segment starts.
RECURSIVE toKeysScan(_, _, _, _, _)
toKeysScan(path, sep, istart, it, keys) ==
    IF it > Len(path) THEN [istart |-> istart, keys |-> keys]
    ELSE IF path[it] = sep
    THEN toKeysScan(path, sep, it + 1, it + 1,
                    IF keepSegment(path, istart, sep)
                    THEN Append(keys, SubSeq(path, istart, it - 1)) ELSE keys)
    ELSE toKeysScan(path, sep, istart, it + 1, keys)

\* Path::toKeys: after the loop the rest is a key, less one trailing NUL,
\* when something is left of it.
toKeys(path, sep) ==
    LET r == toKeysScan(path, sep, 1, 1, <<>>)
        rest == SubSeq(path, r.istart, Len(path))
        last == IF rest # <<>> /\ rest[Len(rest)] = NUL
                THEN SubSeq(rest, 1, Len(rest) - 1) ELSE rest
    IN IF r.istart <= Len(path) /\ last # <<>> THEN Append(r.keys, last) ELSE r.keys

\* ------------------------------------------------------------------ Init
InitTree ==
    /\ root = JNull
    /\ nodes = {}
    /\ sigPtr = [p \in NodePaths |-> NoSig]
    /\ regs = [r \in SigIds |-> NoImpl]
    /\ regPath = [r \in SigIds |-> <<>>]
    /\ nextSig = 1
    /\ held = {}
    /\ handle = [c \in HandleIds |-> NoHandle]
    /\ cbKind = [c \in CbIds |-> "none"]
    /\ nextCb = 1
    /\ log = <<>>
    /\ lastCall = NoCall
    /\ crashed = FALSE
    /\ thr = [t \in Threads |-> IdleThr]
    /\ docLock = NoThread
    /\ sigLock = [r \in SigIds |-> NoThread]
    /\ cancelled = {}
    /\ notified = [c \in CbIds |-> NotNotified]

\* With Json11Trait, whose set does nothing.
Init ==
    /\ InitTree
    /\ adapterSets = FALSE
    /\ pathIn = <<>>
    /\ pathKeys = NoKeys

\* With an adapter whose set takes effect (put_child).
InitSet ==
    /\ InitTree
    /\ adapterSets = TRUE
    /\ pathIn = <<>>
    /\ pathKeys = NoKeys

\* ------------------------------------------- the API, one call per action
\* A call is made when the process runs and the previous call has returned.
Idle == ~crashed /\ lastCall.op = "none"

\* The caller has seen the outcome of its call: the record of it is dropped.
Return ==
    /\ lastCall.op # "none"
    /\ UNCHANGED <<mtVars, pathVars>>
    /\ lastCall' = NoCall
    /\ log' = <<>>
    /\ UNCHANGED <<root, nodes, sigPtr, regs, regPath, nextSig, held, handle, cbKind,
                   nextCb, crashed, adapterSets>>

\* SignalMgr::createSignal(path): the nodes along the path, the registry at
\* its end (made when the node has none), and the pointer returned.
createSignal(ns, sp, nsig, p) ==
    IF p = <<>>
    THEN [nodes |-> ns, sigPtr |-> sp, sig |-> NoSig, nextSig |-> nsig]
    ELSE IF sp[p] = NoSig
    THEN [nodes |-> ns \cup Prefixes(p), sigPtr |-> [sp EXCEPT ![p] = nsig],
          sig |-> nsig, nextSig |-> nsig + 1]
    ELSE [nodes |-> ns \cup Prefixes(p), sigPtr |-> sp, sig |-> sp[p], nextSig |-> nsig]

\* ObservableTree::modificationSignal(path); the client keeps the pointer.
ModificationSignal(p) ==
    /\ Idle
    /\ UNCHANGED <<mtVars, pathVars>>
    /\ LET cs == createSignal(nodes, sigPtr, nextSig, p)
       IN /\ cs.nextSig <= MaxSigs + 1
          /\ nodes' = cs.nodes
          /\ sigPtr' = cs.sigPtr
          /\ nextSig' = cs.nextSig
          /\ regPath' = IF cs.nextSig # nextSig THEN [regPath EXCEPT ![cs.sig] = p]
                        ELSE regPath
          /\ held' = IF cs.sig = NoSig THEN held ELSE held \cup {cs.sig}
          /\ Cardinality(held') <= MaxHeld
    /\ log' = <<>>
    /\ lastCall' = Call("modificationSignal", 0, p, JNull, JNull, NoImpl, FALSE)
    /\ UNCHANGED <<root, regs, handle, cbKind, nextCb, crashed, adapterSets>>

\* The client lets go of a shared_ptr it got from modificationSignal.
Release(r) ==
    /\ Idle
    /\ UNCHANGED <<mtVars, pathVars>>
    /\ r \in held
    /\ held' = held \ {r}
    /\ regs' = Reap(regs, sigPtr, held')
    /\ log' = <<>>
    /\ lastCall' = Call("release", 0, <<>>, JNull, JNull, NoImpl, FALSE)
    /\ UNCHANGED <<root, nodes, sigPtr, regPath, nextSig, handle, cbKind, nextCb,
                   crashed, adapterSets>>

\* `if (sl)`: the std::function passed to connect holds a target.
callableAlways(kind) == TRUE
callable(kind) == kind # "null"

\* ModificationSignal::connect(sl) through a held pointer; the Connection
\* returned for an empty callable is the default one.
Connect(r, kind) ==
    /\ Idle
    /\ UNCHANGED <<mtVars, pathVars>>
    /\ r \in held
    /\ nextCb <= MaxRegs
    /\ IF callable(kind)
       THEN \E addr \in AddrChoices(regs, handle, nextCb) :
               /\ regs' = [regs EXCEPT ![r] = connect(regs[r], addr, nextCb)]
               /\ handle' = [handle EXCEPT ![nextCb] =
                               [sig |-> r, slot |-> addr, mode |-> regs'[r].impl]]
       ELSE /\ regs' = regs
            /\ handle' = [handle EXCEPT ![nextCb] = NoHandle]
    /\ cbKind' = [cbKind EXCEPT ![nextCb] = kind]
    /\ nextCb' = nextCb + 1
    /\ log' = <<>>
    /\ lastCall' = Call("connect", nextCb, <<>>, JNull, JNull, regs[r], FALSE)
    /\ UNCHANGED <<root, nodes, sigPtr, regPath, nextSig, held, crashed, adapterSets>>

\* The statement `tree.modificationSignal(path)->connect(cb)` of the tests:
\* the pointer is a temporary, gone when the statement ends.  The new slot
\* is at a fresh address here; Connect explores the reuse of freed ones.
Register(p, kind) ==
    /\ Idle
    /\ UNCHANGED <<mtVars, pathVars>>
    /\ p # <<>>
    /\ nextCb <= MaxRegs
    /\ LET cs == createSignal(nodes, sigPtr, nextSig, p)
       IN /\ cs.nextSig <= MaxSigs + 1
          /\ nodes' = cs.nodes
          /\ sigPtr' = cs.sigPtr
          /\ nextSig' = cs.nextSig
          /\ regPath' = IF cs.nextSig # nextSig THEN [regPath EXCEPT ![cs.sig] = p]
                        ELSE regPath
          /\ regs' = [regs EXCEPT ![cs.sig] = connect(regs[cs.sig], nextCb, nextCb)]
          /\ handle' = [handle EXCEPT ![nextCb] =
                          [sig |-> cs.sig, slot |-> nextCb, mode |-> regs'[cs.sig].impl]]
    /\ cbKind' = [cbKind EXCEPT ![nextCb] = kind]
    /\ nextCb' = nextCb + 1
    /\ log' = <<>>
    /\ lastCall' = Call("register", nextCb, p, JNull, JNull, NoImpl, FALSE)
    /\ UNCHANGED <<root, held, crashed, adapterSets>>

\* The same statement with an empty path: createSignal returns a null
\* pointer and builds no node, and connect is called through it.  That is
\* undefined: a callable reaches `LockGuard lock(mutex_)` with a null
\* `this` and the process dies; for an empty callable the body touches no
\* member, and the call dies or returns the default Connection.
RegisterEmptyPath(kind) ==
    /\ Idle
    /\ UNCHANGED <<mtVars, pathVars>>
    /\ nextCb <= MaxRegs
    /\ createSignal(nodes, sigPtr, nextSig, <<>>).sig = NoSig
    /\ \/ crashed' = TRUE
       \/ ~callable(kind) /\ crashed' = crashed
    /\ handle' = [handle EXCEPT ![nextCb] = NoHandle]
    /\ cbKind' = [cbKind EXCEPT ![nextCb] = kind]
    /\ nextCb' = nextCb + 1
    /\ log' = <<>>
    /\ lastCall' = Call("registerEmptyPath", nextCb, <<>>, JNull, JNull, NoImpl, FALSE)
    /\ UNCHANGED <<root, nodes, sigPtr, regs, regPath, nextSig, held, adapterSets>>

\* Connection::disconnect() on the Connection object c.
CancelHandle(c) ==
    /\ Idle
    /\ UNCHANGED <<mtVars, pathVars>>
    /\ LET r == handle[c].sig
       IN IF connected(handle[c]) /\ alive(sigPtr, held, r)
          THEN \E out \in disconnect(regs[r], handle[c].slot) :
                  /\ regs' = [regs EXCEPT ![r] = out.rg]
                  /\ crashed' = out.crashed
          ELSE UNCHANGED <<regs, crashed>>
    /\ log' = <<>>
    /\ lastCall' = Call("cancel", c, <<>>, JNull, JNull,
                        IF connected(handle[c]) /\ alive(sigPtr, held, handle[c].sig)
                        THEN regs[handle[c].sig] ELSE NoImpl, FALSE)
    /\ UNCHANGED <<root, nodes, sigPtr, regPath, nextSig, held, handle, cbKind, nextCb,
                   adapterSets>>

\* Connection::disconnect() on the handle of callback c.
Cancel(c) == c \in 1..(nextCb - 1) /\ CancelHandle(c)

\* The Connection objects that exist: returned by a registration or moved
\* into.
Constructed == (1..(nextCb - 1)) \cup {h \in {Moved} : connected(handle[Moved])}

\* The registry Connection object d designates, when it names a slot and
\* the registry lives.
Designated(d) ==
    IF connected(handle[d]) /\ alive(sigPtr, held, handle[d].sig)
    THEN regs[handle[d].sig] ELSE NoImpl

\* What a move leaves in the source: `other.slotID_ = SlotIDInvalid`, the
\* weak_ptr moved out.
movedFrom(hd) == NoHandle

\* Connection(Connection &&other): a new Connection made from handle d.
MoveConstruct(d) ==
    /\ Idle
    /\ UNCHANGED <<mtVars, pathVars>>
    /\ d \in 1..(nextCb - 1)
    /\ ~connected(handle[Moved])
    /\ handle' = [handle EXCEPT ![Moved] = handle[d], ![d] = movedFrom(handle[d])]
    /\ log' = <<>>
    /\ lastCall' = Call("moveConstruct", d, <<>>, JNull, JNull, Designated(d), FALSE)
    /\ UNCHANGED <<root, nodes, sigPtr, regs, regPath, nextSig, held, cbKind, nextCb,
                   crashed, adapterSets>>

\* Connection::operator=(Connection &&other), c = std::move(d): the members
\* are assigned and then control flows off the end of a function that
\* returns a reference, which is undefined: the caller goes on or the
\* process dies.
MoveAssign(c, d) ==
    /\ Idle
    /\ UNCHANGED <<mtVars, pathVars>>
    /\ c \in Constructed /\ d \in Constructed /\ c # d
    /\ handle' = [handle EXCEPT ![c] = handle[d], ![d] = movedFrom(handle[d])]
    /\ crashed' \in BOOLEAN
    /\ log' = <<>>
    /\ lastCall' = Call("moveAssign", d, <<>>, JNull, JNull, Designated(d), FALSE)
    /\ UNCHANGED <<root, nodes, sigPtr, regs, regPath, nextSig, held, cbKind, nextCb,
                   adapterSets>>

\* A connected Connection goes out of scope: it has no destructor of its
\* own, its members are destroyed and nothing else happens.
Discard(c) ==
    /\ Idle
    /\ UNCHANGED <<mtVars, pathVars>>
    /\ c \in Constructed /\ connected(handle[c])
    /\ handle' = [handle EXCEPT ![c] = NoHandle]
    /\ log' = <<>>
    /\ lastCall' = Call("discard", c, <<>>, JNull, JNull, Designated(c), FALSE)
    /\ UNCHANGED <<root, nodes, sigPtr, regs, regPath, nextSig, held, cbKind, nextCb,
                   crashed, adapterSets>>

\* ObservableTree::set(newData): diff under the lock, then swap the root.
Replace(doc) ==
    /\ Idle
    /\ UNCHANGED <<mtVars, pathVars>>
    /\ LET plan == onChangedPlan(nodes, <<>>, root, doc).visits
           res == RunVisits(cbKind, held, plan, 1,
                            [sigPtr |-> sigPtr, regs |-> regs, log |-> <<>>, failed |-> FALSE])
       IN /\ sigPtr' = res.sigPtr
          /\ regs' = res.regs
          /\ log' = res.log
          /\ root' = IF res.failed THEN root ELSE doc
          /\ lastCall' = Call("replace", 0, <<>>, root, doc, NoImpl, res.failed)
    /\ UNCHANGED <<nodes, regPath, nextSig, held, handle, cbKind, nextCb, crashed,
                   adapterSets>>

\* ObservableTree::set(path, newNode): the registry at exactly that path,
\* then the adapter's set.
ReplaceAt(p, v) ==
    /\ Idle
    /\ UNCHANGED <<mtVars, pathVars>>
    /\ LET oldData == getPath(root, p)
           sig == getSignal(nodes, sigPtr, p)
           res == IF sig # NoSig /\ ~equal(oldData, v)
                  THEN implOnChanged(cbKind, regs[sig], oldData, v, <<>>)
                  ELSE [log |-> <<>>, failed |-> FALSE]
       IN /\ log' = res.log
          /\ root' = IF ~res.failed /\ adapterSets THEN putPath(root, p, v) ELSE root
          /\ lastCall' = Call("replaceAt", 0, p, root, v, NoImpl, res.failed)
    /\ UNCHANGED <<nodes, sigPtr, regs, regPath, nextSig, held, handle, cbKind, nextCb,
                   crashed, adapterSets>>

\* The single-threaded client of the tests: register, cancel, replace; no
\* callback fails.
Next ==
    \/ \E p \in RegPaths : Register(p, "ok")
    \/ \E c \in CbIds : Cancel(c)
    \/ \E doc \in Docs : Replace(doc)
    \/ \E p \in RegPaths : \E v \in ValuesAt(p) : ReplaceAt(p, v)
    \/ \E p \in {PathA, <<>>} : \E v \in Leaves : ReplaceAt(p, v)
    \/ Return

Spec == Init /\ [][Next]_vars

\* The same client on a tree whose adapter's set takes effect.
SpecSet == InitSet /\ [][Next]_vars

\* The same client with at most one callback that throws, on the documents
\* whose a/b is an object.
FailDocs == {JNull} \cup
    {d \in Docs : JIndex(d, "a").t = "obj" /\ JIndex(JIndex(d, "a"), "b").t = "obj"}
NoThrower == \A c \in CbIds : cbKind[c] # "throws"
NextFail ==
    \/ \E p \in RegPaths : Register(p, "ok")
    \/ \E p \in RegPaths : NoThrower /\ Register(p, "throws")
    \/ \E c \in CbIds : Cancel(c)
    \/ \E doc \in FailDocs : Replace(doc)
    \/ \E p \in RegPaths : \E v \in Leaves : ReplaceAt(p, v)
    \/ Return

SpecFail == Init /\ [][NextFail]_vars

\* A client of one path that keeps the pointer modificationSignal returns:
\* every storage state of one registry, the reuse of freed slot addresses,
\* the registry the tree has dropped.
RegDocs == {JNull} \cup
    {d \in Docs : JIndex(d, "a").t = "obj" /\ JIndex(JIndex(d, "a"), "b").t = "int"
                  /\ JIndex(JIndex(d, "a"), "d").t = "null"}
NextReg ==
    \/ \E p \in {PathAB, <<>>} : ModificationSignal(p)
    \/ \E r \in SigIds : Release(r)
    \/ \E r \in SigIds, kind \in {"ok", "null"} : Connect(r, kind)
    \/ \E kind \in {"ok", "null"} : RegisterEmptyPath(kind)
    \/ \E c \in CbIds : Cancel(c)
    \/ \E doc \in RegDocs : Replace(doc)
    \/ Return

SpecReg == Init /\ [][NextReg]_vars

\* A client of the path a/b that moves and drops the handles it got.
NextMove ==
    \/ Register(PathAB, "ok")
    \/ \E c \in HandleIds : CancelHandle(c)
    \/ \E d \in CbIds : MoveConstruct(d)
    \/ \E c, d \in HandleIds : MoveAssign(c, d)
    \/ \E c \in HandleIds : Discard(c)
    \/ \E doc \in RegDocs : Replace(doc)
    \/ Return

SpecMove == Init /\ [][NextMove]_vars

\* ------------------------------------------------- threads and mutexes
\* With MutexType = std::mutex the calls of several threads interleave at
\* the lock operations.  A thread's step is what it does between two of them.

\* LockGuard's constructor, m_.lock(), by thread t on a mutex owned by
\* `owner`: it returns, it waits for the owner, or the thread already owns
\* the mutex, which std::mutex leaves undefined.
lockNoEffect(owner, t) == "enter"
lockOutcome(owner, t) ==
    IF owner = NoThread THEN "enter" ELSE IF owner = t THEN "relock" ELSE "wait"
\* LockGuard's destructor, m_.unlock(), run on every way out of the scope.
unlockNever(owner, t) == owner
unlock(owner, t) == IF owner = t THEN NoThread ELSE owner
\* The stack of thread t unwinds: every LockGuard it has is destroyed.
unwind(locks, t) == [r \in DOMAIN locks |-> unlock(locks[r], t)]

\* `LockGuard lock(mutex_)` of ModificationSignal::disconnect.
disconnectNoLock(owner, t) == "enter"
disconnectLock(owner, t) == lockOutcome(owner, t)

\* The registries kept alive by a shared_ptr outside the tree: those the
\* client holds and the temporaries of the threads (other than t) that are
\* between modificationSignal(path) and ->connect(cb).
OwnersBut(t) ==
    held \cup {thr[u].sig : u \in {w \in Threads \ {t} : thr[w].pc = "connect"}}
Owners == OwnersBut(0)

\* A thread's call has exited: what it was and how it ended (h names the
\* handle a register or cancel was about, or the callback that threw).
Exited(t, failed) ==
    [IdleThr EXCEPT !.pc = "returned", !.op = thr[t].op, !.failed = failed]

\* tree.modificationSignal(path), first half of the statement
\* `tree.modificationSignal(path)->connect(cb)`: under the document lock.
MTModificationSignal(t, p) ==
    /\ ~crashed /\ thr[t].pc = "idle" /\ p # <<>>
    /\ UNCHANGED <<notified, pathVars>>
    /\ lockOutcome(docLock, t) = "enter"
    /\ nextCb + Cardinality({u \in Threads : thr[u].pc = "connect"}) <= MaxRegsMT
    /\ LET cs == createSignal(nodes, sigPtr, nextSig, p)
       IN /\ cs.nextSig <= MaxSigs + 1
          /\ nodes' = cs.nodes
          /\ sigPtr' = cs.sigPtr
          /\ nextSig' = cs.nextSig
          /\ regPath' = IF cs.nextSig # nextSig THEN [regPath EXCEPT ![cs.sig] = p]
                        ELSE regPath
          /\ thr' = [thr EXCEPT ![t] = [IdleThr EXCEPT !.pc = "connect", !.op = "register",
                                                       !.path = p, !.sig = cs.sig]]
    /\ UNCHANGED <<root, regs, held, handle, cbKind, nextCb, log, lastCall, crashed,
                   adapterSets, docLock, sigLock, cancelled>>

\* ->connect(cb), second half: under the registry's lock only; then the
\* temporary pointer is destroyed.
MTConnect(t, kind) ==
    /\ ~crashed /\ thr[t].pc = "connect"
    /\ UNCHANGED <<notified, pathVars>>
    /\ lockOutcome(sigLock[thr[t].sig], t) = "enter"
    /\ LET r == thr[t].sig
           rg == connect(regs[r], nextCb, nextCb)
       IN /\ regs' = Reap([regs EXCEPT ![r] = rg], sigPtr, OwnersBut(t))
          /\ handle' = [handle EXCEPT ![nextCb] =
                          [sig |-> r, slot |-> nextCb, mode |-> rg.impl]]
    /\ cbKind' = [cbKind EXCEPT ![nextCb] = kind]
    /\ nextCb' = nextCb + 1
    /\ thr' = [thr EXCEPT ![t] = [Exited(t, FALSE) EXCEPT !.h = nextCb]]
    /\ UNCHANGED <<root, nodes, sigPtr, regPath, nextSig, held, log, lastCall, crashed,
                   adapterSets, docLock, sigLock, cancelled>>

\* Connection::disconnect() called by a thread that is in no other call.
MTCancel(t, c) ==
    /\ ~crashed /\ thr[t].pc = "idle"
    /\ UNCHANGED <<notified, pathVars>>
    /\ c \in 1..(nextCb - 1)
    /\ LET r == handle[c].sig
       IN IF alive(sigPtr, Owners, r)
          THEN /\ disconnectLock(sigLock[r], t) = "enter"
               /\ \E out \in disconnect(regs[r], handle[c].slot) :
                     /\ regs' = [regs EXCEPT ![r] = out.rg]
                     /\ crashed' = out.crashed
                     /\ cancelled' = IF out.crashed THEN cancelled ELSE cancelled \cup {c}
          ELSE /\ UNCHANGED <<regs, crashed>>
               /\ cancelled' = cancelled \cup {c}
    /\ thr' = [thr EXCEPT ![t] = [IdleThr EXCEPT !.pc = "returned", !.op = "cancel", !.h = c]]
    /\ UNCHANGED <<root, nodes, sigPtr, regPath, nextSig, held, handle, cbKind, nextCb,
                   log, lastCall, adapterSets, docLock, sigLock>>

\* ObservableTree::get(): a copy of the root under the document lock.
MTSnapshot(t) ==
    /\ ~crashed /\ thr[t].pc = "idle"
    /\ UNCHANGED <<notified, pathVars>>
    /\ lockOutcome(docLock, t) = "enter"
    /\ thr' = [thr EXCEPT ![t] = [IdleThr EXCEPT !.pc = "returned", !.op = "snapshot"]]
    /\ UNCHANGED <<root, nodes, sigPtr, regs, regPath, nextSig, held, handle, cbKind,
                   nextCb, log, lastCall, crashed, adapterSets, docLock, sigLock,
                   cancelled>>

\* set(newData) calls signalMgr_.onChanged(root_, newData) before it
\* assigns root_: while the walk runs root_ is the old document.
rootSwappedFirst(oldRoot, newData) == newData
rootWhileDiffing(oldRoot, newData) == oldRoot

\* ObservableTree::set(newData) begins: the document lock is taken; the
\* walk it will make is fixed by the nodes and the two documents, which
\* only a holder of the document lock changes.
MTReplace(t, doc) ==
    /\ ~crashed /\ thr[t].pc = "idle"
    /\ UNCHANGED <<notified, pathVars>>
    /\ lockOutcome(docLock, t) = "enter"
    /\ docLock' = t
    /\ root' = rootWhileDiffing(root, doc)
    /\ thr' = [thr EXCEPT ![t] =
                 [IdleThr EXCEPT !.pc = "walk", !.op = "replace", !.arg = doc,
                                 !.visits = onChangedPlan(nodes, <<>>, root, doc).visits]]
    /\ UNCHANGED <<nodes, sigPtr, regs, regPath, nextSig, held, handle, cbKind,
                   nextCb, log, lastCall, crashed, adapterSets, sigLock, cancelled>>

\* ObservableTree::set(path, newNode) begins: SignalMgr::onChanged(path,
\* old, new) calls the registry at the path, when there is one and the
\* values differ, without asking connected() -- as after a changed sub-tree.
MTReplaceAt(t, p, v) ==
    /\ ~crashed /\ thr[t].pc = "idle"
    /\ UNCHANGED <<notified, pathVars>>
    /\ lockOutcome(docLock, t) = "enter"
    /\ docLock' = t
    /\ LET oldData == getPath(root, p)
           sig == getSignal(nodes, sigPtr, p)
       IN thr' = [thr EXCEPT ![t] =
                 [IdleThr EXCEPT !.pc = "walk", !.op = "replaceAt", !.arg = v, !.path = p,
                     !.visits = IF sig # NoSig /\ ~equal(oldData, v)
                                THEN <<[path |-> p, old |-> oldData, new |-> v,
                                        subChanged |-> TRUE, diff |-> TRUE]>>
                                ELSE <<>>]]
    /\ UNCHANGED <<root, nodes, sigPtr, regs, regPath, nextSig, held, handle, cbKind,
                   nextCb, log, lastCall, crashed, adapterSets, sigLock, cancelled>>

\* One pass of the loop body up to the call of the registry: connected()
\* is asked under the registry's lock, which is released again before
\* operator() takes it.
MTVisit(t) ==
    /\ ~crashed /\ thr[t].pc = "walk" /\ thr[t].visits # <<>>
    /\ UNCHANGED <<notified, pathVars>>
    /\ LET v == Head(thr[t].visits)
           r == sigPtr[v.path]
           act == visitAction(v.subChanged, r, r # NoSig /\ signalConnected(regs[r]), v.diff)
       IN /\ (~v.subChanged /\ r # NoSig) => lockOutcome(sigLock[r], t) = "enter"
          /\ IF act = "fire"
             THEN /\ thr' = [thr EXCEPT ![t].pc = "fire", ![t].sig = r]
                  /\ UNCHANGED <<sigPtr, regs>>
             ELSE IF act = "reset"
             THEN /\ sigPtr' = [sigPtr EXCEPT ![v.path] = NoSig]
                  /\ regs' = [regs EXCEPT ![r] = IF r \in Owners THEN @ ELSE NoImpl]
                  /\ thr' = [thr EXCEPT ![t].visits = Tail(@)]
             ELSE /\ thr' = [thr EXCEPT ![t].visits = Tail(@)]
                  /\ UNCHANGED <<sigPtr, regs>>
    /\ UNCHANGED <<root, nodes, regPath, nextSig, held, handle, cbKind, nextCb, log,
                   lastCall, crashed, adapterSets, docLock, sigLock, cancelled>>

\* The record after a call that made the invocations lg has failed.
Broken(lg) ==
    [c \in CbIds |-> IF \E i \in 1..Len(lg) : lg[i].cb = c THEN NotNotified
                     ELSE notified[c]]

\* TraitType::get or TraitType::equal of an adapter that can fail throws
\* while the walk is at a key: the stack unwinds out of set().
MTAdapterThrows(t) ==
    /\ ~crashed /\ thr[t].pc = "walk" /\ thr[t].visits # <<>>
    /\ notified' = Broken(thr[t].log)
    /\ UNCHANGED pathVars
    /\ thr' = [thr EXCEPT ![t] = Exited(t, TRUE)]
    /\ sigLock' = unwind(sigLock, t)
    /\ docLock' = unlock(docLock, t)
    /\ UNCHANGED <<root, nodes, sigPtr, regs, regPath, nextSig, held, handle, cbKind,
                   nextCb, log, lastCall, crashed, adapterSets, cancelled>>

\* ModificationSignal::operator() begins: `LockGuard lock(mutex_)`.
MTLock(t) ==
    /\ ~crashed /\ thr[t].pc = "fire"
    /\ UNCHANGED <<notified, pathVars>>
    /\ lockOutcome(sigLock[thr[t].sig], t) = "enter"
    /\ sigLock' = [sigLock EXCEPT ![thr[t].sig] = t]
    /\ thr' = [thr EXCEPT ![t].pc = "dispatch", ![t].i = 1]
    /\ UNCHANGED <<root, nodes, sigPtr, regs, regPath, nextSig, held, handle, cbKind,
                   nextCb, log, lastCall, crashed, adapterSets, docLock, cancelled>>

\* The callback the dispatch of thread t is at, and the call's invocations
\* with this one added.
Dispatching(t) == thr[t].pc = "dispatch" /\ thr[t].i <= Len(regs[thr[t].sig].slots)
CurrentCb(t) == regs[thr[t].sig].slots[thr[t].i].cb
Invoked(t) ==
    LET v == Head(thr[t].visits)
    IN Append(thr[t].log, [cb |-> CurrentCb(t), old |-> v.old, new |-> v.new])

\* The record of notifications after the callback at hand was invoked: a
\* replace's notification is remembered, a replaceAt's is not part of a run
\* of replaces.
Noted(t) ==
    [notified EXCEPT ![CurrentCb(t)] =
        IF thr[t].op = "replace"
        THEN [seen |-> TRUE, new |-> Head(thr[t].visits).new]
        ELSE NotNotified]
\* impl_->onChanged: the next callback is invoked and returns.
MTInvokeOk(t) ==
    /\ ~crashed /\ Dispatching(t) /\ cbKind[CurrentCb(t)] = "ok"
    /\ notified' = Noted(t)
    /\ UNCHANGED pathVars
    /\ thr' = [thr EXCEPT ![t].log = Invoked(t), ![t].i = @ + 1]
    /\ UNCHANGED <<root, nodes, sigPtr, regs, regPath, nextSig, held, handle, cbKind,
                   nextCb, log, lastCall, crashed, adapterSets, docLock, sigLock,
                   cancelled>>

\* The next callback is invoked and throws: nothing catches it, the stack
\* unwinds out of set() and the call exits with the failure.
MTInvokeThrows(t) ==
    /\ ~crashed /\ Dispatching(t) /\ cbKind[CurrentCb(t)] = "throws"
    /\ notified' = Broken(Invoked(t))
    /\ UNCHANGED pathVars
    /\ thr' = [thr EXCEPT ![t] = [Exited(t, TRUE) EXCEPT !.h = CurrentCb(t)]]
    /\ sigLock' = unwind(sigLock, t)
    /\ docLock' = unlock(docLock, t)
    /\ UNCHANGED <<root, nodes, sigPtr, regs, regPath, nextSig, held, handle, cbKind,
                   nextCb, log, lastCall, crashed, adapterSets, cancelled>>

\* The next callback is invoked and calls cancel() on the handle of
\* callback c.  When the handle's registry is the one being dispatched, the
\* thread locks a std::mutex it owns: it waits for itself for ever, or the
\* lock reports the error and the exception leaves the callback.
MTInvokeCancels(t, c) ==
    /\ ~crashed /\ Dispatching(t) /\ cbKind[CurrentCb(t)] = "cancels"
    /\ UNCHANGED pathVars
    /\ c \in 1..(nextCb - 1)
    /\ LET r == handle[c].sig
           go == IF alive(sigPtr, Owners, r) THEN disconnectLock(sigLock[r], t) ELSE "dead"
       IN /\ go # "wait"
          /\ IF go = "relock"
             THEN /\ \/ /\ thr' = [thr EXCEPT ![t].pc = "blocked", ![t].log = Invoked(t),
                                              ![t].h = c]
                        /\ notified' = Noted(t)
                        /\ UNCHANGED <<sigLock, docLock>>
                     \/ /\ thr' = [thr EXCEPT ![t] = Exited(t, TRUE)]
                        /\ notified' = Broken(Invoked(t))
                        /\ sigLock' = unwind(sigLock, t)
                        /\ docLock' = unlock(docLock, t)
                  /\ UNCHANGED <<regs, crashed, cancelled>>
             ELSE /\ IF go = "dead"
                     THEN /\ UNCHANGED <<regs, crashed>>
                          /\ cancelled' = cancelled \cup {c}
                     ELSE \E out \in disconnect(regs[r], handle[c].slot) :
                             /\ regs' = [regs EXCEPT ![r] = out.rg]
                             /\ crashed' = out.crashed
                             /\ cancelled' = IF out.crashed THEN cancelled
                                             ELSE cancelled \cup {c}
                  /\ thr' = [thr EXCEPT ![t].log = Invoked(t), ![t].i = @ + 1]
                  /\ notified' = Noted(t)
                  /\ UNCHANGED <<sigLock, docLock>>
    /\ UNCHANGED <<root, nodes, sigPtr, regPath, nextSig, held, handle, cbKind, nextCb,
                   log, lastCall, adapterSets>>

\* The LockGuard of ModificationSignal::operator() is destroyed.
dispatchKeepsLock(owner, t) == owner
dispatchUnlock(owner, t) == unlock(owner, t)

\* operator() returns: its LockGuard is destroyed, the walk goes on.
MTUnlock(t) ==
    /\ ~crashed /\ thr[t].pc = "dispatch" /\ thr[t].i > Len(regs[thr[t].sig].slots)
    /\ UNCHANGED <<notified, pathVars>>
    /\ sigLock' = [sigLock EXCEPT ![thr[t].sig] = dispatchUnlock(@, t)]
    /\ thr' = [thr EXCEPT ![t].pc = "walk", ![t].sig = NoSig, ![t].i = 0,
                          ![t].visits = Tail(@)]
    /\ UNCHANGED <<root, nodes, sigPtr, regs, regPath, nextSig, held, handle, cbKind,
                   nextCb, log, lastCall, crashed, adapterSets, docLock, cancelled>>

\* The walk is over: the root is assigned (set(newData)) or the adapter's
\* set is called (set(path, newNode)), and the document lock is released.
MTFinish(t) ==
    /\ ~crashed /\ thr[t].pc = "walk" /\ thr[t].visits = <<>>
    /\ UNCHANGED <<notified, pathVars>>
    /\ root' = IF thr[t].op = "replace" THEN thr[t].arg
               ELSE IF adapterSets THEN putPath(root, thr[t].path, thr[t].arg) ELSE root
    /\ docLock' = unlock(docLock, t)
    /\ thr' = [thr EXCEPT ![t] = Exited(t, FALSE)]
    /\ UNCHANGED <<nodes, sigPtr, regs, regPath, nextSig, held, handle, cbKind, nextCb,
                   log, lastCall, crashed, adapterSets, sigLock, cancelled>>

\* The caller has seen the outcome of its call.
MTReturn(t) ==
    /\ ~crashed /\ thr[t].pc = "returned"
    /\ UNCHANGED <<notified, pathVars>>
    /\ thr' = [thr EXCEPT ![t] = IdleThr]
    /\ UNCHANGED <<root, nodes, sigPtr, regs, regPath, nextSig, held, handle, cbKind,
                   nextCb, log, lastCall, crashed, adapterSets, docLock, sigLock,
                   cancelled>>

\* Two threads on one tree with registries at a/b and a/d, the documents in
\* which both hold a number or the root is null, and at most one callback
\* that does more than return.
MTPaths == {PathAB, PathAD}
MTDocs == {JNull} \cup
    {d \in Docs : JIndex(JIndex(d, "a"), "b").t = "int" /\ JIndex(JIndex(d, "a"), "d").t = "int"}
AllPlain == \A c \in CbIds : cbKind[c] \in {"none", "ok"}
NextMT ==
    \/ \E t \in Threads, p \in MTPaths : MTModificationSignal(t, p)
    \/ \E t \in Threads : MTConnect(t, "ok")
    \/ \E t \in Threads, kind \in {"throws", "cancels"} : AllPlain /\ MTConnect(t, kind)
    \/ \E t \in Threads, c \in CbIds : MTCancel(t, c)
    \/ \E t \in Threads : MTSnapshot(t)
    \/ \E t \in Threads, doc \in MTDocs : MTReplace(t, doc)
    \/ \E t \in Threads, v \in Leaves : MTReplaceAt(t, PathAB, v)
    \/ \E t \in Threads : MTVisit(t)
    \/ \E t \in Threads : MTAdapterThrows(t)
    \/ \E t \in Threads : MTLock(t)
    \/ \E t \in Threads : MTInvokeOk(t)
    \/ \E t \in Threads : MTInvokeThrows(t)
    \/ \E t \in Threads, c \in CbIds : MTInvokeCancels(t, c)
    \/ \E t \in Threads : MTUnlock(t)
    \/ \E t \in Threads : MTFinish(t)
    \/ \E t \in Threads : MTReturn(t)

SpecMT == Init /\ [][NextMT]_vars

\* The same threads when every callback just returns: no callback calls
\* back into the tree or a registry, none throws.  A thread that is inside
\* a call is scheduled again and again, and a thread that waits for a
\* mutex gets it when the mutex is released again and again.
PlainDocs == {JNull} \cup
    {d \in MTDocs : d # JNull /\ JIndex(JIndex(d, "a"), "d") = JInt(0)}
Progress(t) ==
    \/ MTConnect(t, "ok")
    \/ MTVisit(t)
    \/ MTLock(t)
    \/ MTInvokeOk(t)
    \/ MTUnlock(t)
    \/ MTFinish(t)
    \/ MTReturn(t)
NextPlain ==
    \/ \E t \in Threads : MTModificationSignal(t, PathAB)
    \/ \E t \in Threads : MTConnect(t, "ok")
    \/ \E t \in Threads, c \in CbIds : MTCancel(t, c)
    \/ \E t \in Threads : MTSnapshot(t)
    \/ \E t \in Threads, doc \in PlainDocs : MTReplace(t, doc)
    \/ \E t \in Threads, v \in Leaves : MTReplaceAt(t, PathAB, v)
    \/ \E t \in Threads : MTVisit(t)
    \/ \E t \in Threads : MTLock(t)
    \/ \E t \in Threads : MTInvokeOk(t)
    \/ \E t \in Threads : MTUnlock(t)
    \/ \E t \in Threads : MTFinish(t)
    \/ \E t \in Threads : MTReturn(t)

SpecPlain == Init /\ [][NextPlain]_vars /\ \A t \in Threads : SF_vars(Progress(t))

\* ------------------------------------------------------ Path construction
\* The texts over a, b and the separator, as a std::string (the characters
\* alone), as a string literal (a char array: the characters and the
\* terminator) and as a char buffer one longer than the literal.
RECURSIVE Texts(_)
Texts(n) ==
    IF n = 0 THEN {<<>>}
    ELSE Texts(n - 1) \cup {Append(x, ch) : x \in Texts(n - 1), ch \in {"a", "b", Sep}}
PathArgs ==
    {x \o pad : x \in Texts(MaxPathLen), pad \in {<<>>, <<NUL>>, <<NUL, NUL>>}}

InitPath ==
    /\ InitTree
    /\ adapterSets = FALSE
    /\ pathIn \in PathArgs
    /\ pathKeys = NoKeys

\* Path(const String &path, Sep sep = '/').
ConstructPath ==
    /\ ~pathKeys.done
    /\ pathKeys' = [done |-> TRUE, keys |-> toKeys(pathIn, Sep)]
    /\ UNCHANGED <<root, nodes, sigPtr, regs, regPath, nextSig, held, handle, cbKind,
                   nextCb, log, lastCall, crashed, adapterSets, mtVars, pathIn>>

NextPath == ConstructPath

SpecPath == InitPath /\ [][NextPath]_vars

\* ------------------------------------------------------------ the claims
\* The callbacks stored in the registry the tree holds at node p.
LiveAt(p) ==
    IF sigPtr[p] = NoSig THEN {}
    ELSE {regs[sigPtr[p]].slots[i].cb : i \in 1..Len(regs[sigPtr[p]].slots)}
\* The path a callback was registered at.
PathOf(cb) == regPath[handle[cb].sig]
\* How often the most recent call invoked a callback.
Count(cb) == Cardinality({i \in 1..Len(log) : log[i].cb = cb})
Fired(cb) == Count(cb) > 0
ReplaceDone == lastCall.op = "replace" /\ ~lastCall.failed

\* C1: after a whole-document replace(newDoc) on a stored root oldDoc that
\* returned normally, every callback live at a registered path p was invoked
\* exactly once, with (get(oldDoc, p), get(newDoc, p)), if those two values
\* are not adapter-equal, and not at all if they are equal; nothing else
\* was invoked.  (A registry the replace dropped held no callback, so the
\* live callbacks after the call are those before it.)
C1_ReplaceNotifiesExactlyTheChangedPaths ==
    ReplaceDone =>
        /\ \A p \in NodePaths : \A cb \in LiveAt(p) :
              LET o == getPath(lastCall.old, p)
                  n == getPath(lastCall.arg, p)
              IN IF equal(o, n) THEN Count(cb) = 0
                 ELSE /\ Count(cb) = 1
                      /\ \A i \in 1..Len(log) :
                            log[i].cb = cb => log[i].old = o /\ log[i].new = n
        /\ \A i \in 1..Len(log) : \E p \in NodePaths : log[i].cb \in LiveAt(p)

\* A replace in which a/b fired because a/b/c below it had changed, while a
\* live callback at an unchanged path stayed silent.
C1_Witness ==
    /\ ReplaceDone
    /\ ~empty(getPath(lastCall.old, PathABC))
    /\ \E x \in LiveAt(PathAB), y \in LiveAt(PathABC), z \in LiveAt(PathAD) :
          Fired(x) /\ Fired(y) /\ ~Fired(z)

\* C2: a replace whose new document is adapter-equal to the stored root --
\* the root a completed replace(x) left, for y equal to x -- invokes no
\* callback at any registered path.
C2_ReplaceWithEqualDocumentIsSilent ==
    (lastCall.op = "replace" /\ equal(lastCall.old, lastCall.arg)) => log = <<>>

\* The root was left by an earlier replace (the adapter's set does nothing,
\* so nothing else writes the root), holds values at every registered path,
\* and callbacks are live there.
C2_Witness ==
    /\ lastCall.op = "replace" /\ ~lastCall.failed /\ ~adapterSets
    /\ equal(lastCall.old, lastCall.arg)
    /\ ~empty(getPath(lastCall.old, PathABC))
    /\ ~empty(getPath(lastCall.old, PathAD))
    /\ \A p \in RegPaths : LiveAt(p) # {}

\* C3: within one replace no callback of a path is invoked before a
\* callback of a proper extension of that path; and with live callbacks at
\* a/b, a/b/c and a/d, a replace that changes the value at a/b/c and leaves
\* a/d as it was invokes every callback at a/b/c and at a/b and none at a/d.
C3_BottomUpAndPathIndependent ==
    lastCall.op = "replace" =>
        /\ \A i \in 1..Len(log) : \A j \in (i + 1)..Len(log) :
              ~IsProperPrefix(PathOf(log[i].cb), PathOf(log[j].cb))
        /\ (/\ ~lastCall.failed
            /\ ~equal(getPath(lastCall.old, PathABC), getPath(lastCall.arg, PathABC))
            /\ equal(getPath(lastCall.old, PathAD), getPath(lastCall.arg, PathAD)))
           => /\ \A cb \in LiveAt(PathABC) \cup LiveAt(PathAB) : Count(cb) = 1
              /\ \A cb \in LiveAt(PathAD) : Count(cb) = 0

\* One callback at each of a/b, a/b/c, a/d; only a/b/c changed; the log is
\* the a/b/c callback, then the a/b callback.
C3_Witness ==
    /\ ReplaceDone
    /\ \A p \in RegPaths : LiveAt(p) # {}
    /\ ~equal(getPath(lastCall.old, PathABC), getPath(lastCall.arg, PathABC))
    /\ equal(getPath(lastCall.old, PathAD), getPath(lastCall.arg, PathAD))
    /\ ~empty(getPath(lastCall.old, PathAD))
    /\ Len(log) = 2
    /\ PathOf(log[1].cb) = PathABC
    /\ PathOf(log[2].cb) = PathAB

\* C6: a replace whose stored root and new root are both adapter-empty
\* invokes no callback, and that is what comparing get(old, p) with
\* get(new, p) at every path holding a live callback gives: all are equal.
C6_EmptyRootsShortCircuit ==
    (lastCall.op = "replace" /\ empty(lastCall.old) /\ empty(lastCall.arg)) =>
        /\ log = <<>>
        /\ \A p \in NodePaths :
              LiveAt(p) # {} => equal(getPath(lastCall.old, p), getPath(lastCall.arg, p))

\* Both roots empty, with live callbacks at depth 2 and depth 3.
C6_Witness ==
    /\ lastCall.op = "replace" /\ empty(lastCall.old) /\ empty(lastCall.arg)
    /\ LiveAt(PathABC) # {} /\ LiveAt(PathAB) # {} /\ LiveAt(PathAD) # {}

\* What the most recent replace or replaceAt would have invoked had no
\* callback failed: the same walk with every callback returning normally.
AllOk == [c \in CbIds |-> "ok"]
FullLog ==
    IF lastCall.op = "replace"
    THEN RunVisits(AllOk, held,
                   onChangedPlan(nodes, <<>>, lastCall.old, lastCall.arg).visits, 1,
                   [sigPtr |-> sigPtr, regs |-> regs, log |-> <<>>, failed |-> FALSE]).log
    ELSE LET sig == getSignal(nodes, sigPtr, lastCall.path)
         IN IF sig # NoSig /\ ~equal(getPath(lastCall.old, lastCall.path), lastCall.arg)
            THEN implOnChanged(AllOk, regs[sig], getPath(lastCall.old, lastCall.path),
                               lastCall.arg, <<>>).log
            ELSE <<>>
Throwers(lg) == {i \in 1..Len(lg) : cbKind[lg[i].cb] = "throws"}
FirstOf(S) == CHOOSE i \in S : \A j \in S : i <= j

\* C9: when a callback fails during a replace or replaceAt, the invocations
\* made are exactly those up to and including the failing one -- the earlier
\* ones stand, no callback due later in that call (same registry or a
\* registry visited later) is invoked -- and the call exits with the
\* failure; when none fails, every due callback is invoked and the call
\* returns normally.
C9_CallbackFailureAbortsTheCall ==
    lastCall.op \in {"replace", "replaceAt"} =>
        IF Throwers(FullLog) = {}
        THEN log = FullLog /\ ~lastCall.failed
        ELSE log = SubSeq(FullLog, 1, FirstOf(Throwers(FullLog))) /\ lastCall.failed

\* A failed replace: one callback invoked before the failing one, and a
\* callback of a registry visited later left out.
C9_Witness ==
    /\ lastCall.op = "replace" /\ lastCall.failed
    /\ Len(FullLog) = 3 /\ Len(log) = 2
    /\ cbKind[log[2].cb] = "throws"
    /\ PathOf(FullLog[3].cb) # PathOf(log[2].cb)

\* The callbacks a registry stores, in order.
CbsOf(rg) == [i \in 1..Len(rg.slots) |-> rg.slots[i].cb]
\* The sequence sq without its entries equal to x.
Without(sq, x) == SelectSeq(sq, LAMBDA y : y # x)
\* The most recent call was cancel() on the handle of callback h.
Cancelled(h) == lastCall.op = "cancel" /\ lastCall.h = h
\* The registry the cancelled handle designates, as the cancel left it.
CancelReg ==
    IF connected(handle[lastCall.h]) THEN regs[handle[lastCall.h].sig] ELSE NoImpl

\* C4: a handle stays good across the Single-to-Multi upgrade: cancel() on
\* a handle whose callback a Multi registry stores -- the handle of the
\* first registration, made in Single mode, or of a later one, in whatever
\* order they are cancelled -- removes that callback and no other and
\* completes; and a replace that changes the path's value then invokes the
\* callbacks still stored, once each, and no cancelled one.
C4_HandleStableAcrossUpgrade ==
    /\ \A h \in CbIds :
          (/\ Cancelled(h)
           /\ lastCall.pre.impl = "multi"
           /\ \E i \in 1..Len(lastCall.pre.slots) : lastCall.pre.slots[i].cb = h)
          => /\ ~crashed
             /\ CbsOf(CancelReg) = Without(CbsOf(lastCall.pre), h)
    /\ (ReplaceDone /\ ~equal(getPath(lastCall.old, PathAB), getPath(lastCall.arg, PathAB)))
          => /\ \A cb \in LiveAt(PathAB) : Count(cb) = 1
             /\ \A i \in 1..Len(log) : log[i].cb \in LiveAt(PathAB)

\* h1 came from the first registration (Single mode), a second registration
\* promoted the registry, and h1.cancel() left exactly the second callback.
C4_Witness ==
    \E h1 \in CbIds :
        /\ Cancelled(h1)
        /\ handle[h1].mode = "single"
        /\ lastCall.pre.impl = "multi"
        /\ Len(lastCall.pre.slots) = 2
        /\ lastCall.pre.slots[1].cb = h1
        /\ Len(CancelReg.slots) = 1
        /\ CancelReg.slots[1].cb = lastCall.pre.slots[2].cb
        /\ ~crashed

\* C7: cancel() on a handle whose callback the registry no longer stores
\* leaves the registry's stored callbacks as they were and completes
\* normally, in Single mode and in Multi mode.
C7_RepeatedCancelIsNoOp ==
    \A h \in CbIds :
        (/\ Cancelled(h)
         /\ \A i \in 1..Len(lastCall.pre.slots) : lastCall.pre.slots[i].cb # h)
        => /\ ~crashed
           /\ CbsOf(CancelReg) = CbsOf(lastCall.pre)

\* How often the sequence of invocations lg holds callback c.
CountIn(lg, c) == Cardinality({i \in 1..Len(lg) : lg[i].cb = c})

\* C5: once cancel() on a handle has returned, no thread's replace or
\* replaceAt -- one begun later or one already in progress -- invokes the
\* callback it designates; and between the first and the last invocation
\* of one registry's dispatch pass the registry's stored callbacks do not
\* change: a cancel by another thread lands before the pass or after it.
C5_CancellationFinalUnderConcurrency ==
    [][/\ \A t \in Threads : \A c \in cancelled :
             CountIn(thr[t].log, c)' <= CountIn(thr[t].log, c)
       /\ \A t \in Threads :
             (thr[t].pc = "dispatch" /\ thr[t].pc' = "dispatch")
             => regs'[thr[t].sig] = regs[thr[t].sig]]_vars

\* Thread t2's replace found the registry connected and is about to call
\* it; thread t1's cancel() of its only callback returned in between.
C5_Witness ==
    \E t1, t2 \in Threads : \E c \in cancelled :
        /\ t1 # t2
        /\ thr[t1].pc = "returned" /\ thr[t1].op = "cancel" /\ thr[t1].h = c
        /\ thr[t2].pc = "fire" /\ thr[t2].op = "replace"
        /\ thr[t2].sig = handle[c].sig
        /\ ~Head(thr[t2].visits).subChanged
        /\ regs[thr[t2].sig].slots = <<>>
        /\ ~crashed

\* C8: cancel() called from inside a running callback returns, whatever
\* handle of the document it is called on: no thread ever waits in cancel()
\* for a registry lock that the thread itself holds.
C8_CancelInsideCallbackReturns ==
    \A t \in Threads : thr[t].pc # "blocked"

\* C10: a thread that is in no call, or whose call has exited -- normally
\* or with the failure of a callback -- owns neither the document lock nor
\* any registry lock.  (The failure of an adapter operation exits the same
\* way.)
C10_NoLockLeftHeldAfterFailure ==
    \A t \in Threads :
        thr[t].pc \in {"idle", "connect", "returned"}
        => /\ docLock # t
           /\ \A r \in SigIds : sigLock[r] # t

\* Thread t1's replace exited with a callback's failure, and thread t2 has
\* since taken the document lock and the lock of a registry.
C10_Witness ==
    \E t1, t2 \in Threads :
        /\ t1 # t2
        /\ thr[t1].pc = "returned" /\ thr[t1].op = "replace" /\ thr[t1].failed
        /\ thr[t1].h \in CbIds /\ cbKind[thr[t1].h] = "throws"
        /\ thr[t2].pc = "dispatch"
        /\ docLock = t2
        /\ sigLock[thr[t2].sig] = t2

\* Thread t is inside set(newData), between taking the document lock and
\* the assignment of the root.
InReplace(t) == thr[t].op = "replace" /\ thr[t].pc \in {"walk", "fire", "dispatch", "blocked"}
\* The step in which thread t's set(newData) assigns the root and returns.
FinishesReplace(t) ==
    /\ thr[t].op = "replace" /\ thr[t].pc = "walk" /\ thr[t].visits = <<>>
    /\ thr[t].pc' = "returned" /\ ~thr[t].failed'

\* C11: while a replace(newValue) dispatches, the stored root is the old
\* document (every value the walk still has to report is the root's); the
\* root changes only in the step that ends a replace after all its
\* callbacks have returned, and becomes newValue there; a replace that
\* fails leaves the root as it was; nothing else writes the root, so a
\* snapshot equals newValue until the next replace ends.
C11_DiffBeforeSwap ==
    /\ [](\A t \in Threads : InReplace(t) =>
             \A i \in 1..Len(thr[t].visits) :
                getPath(root, thr[t].visits[i].path) = thr[t].visits[i].old)
    /\ [][/\ root' # root => \E t \in Threads : FinishesReplace(t)
          /\ \A t \in Threads : FinishesReplace(t) => root' = thr[t].arg
          /\ \A t \in Threads : (thr[t].pc # "returned" /\ thr[t].pc' = "returned"
                                 /\ thr[t].failed') => root' = root]_vars

\* A replace in the middle of a dispatch: one callback has returned, the
\* root is not yet the new document.
C11_Witness ==
    \E t \in Threads :
        /\ InReplace(t) /\ thr[t].pc = "dispatch"
        /\ thr[t].log # <<>>
        /\ root # thr[t].arg
        /\ getPath(root, Head(thr[t].visits).path) = Head(thr[t].visits).old

\* The callbacks of the registry at exactly the path p, none when the tree
\* has no registry there.
LiveAtExactly(p) == IF p \in nodes THEN LiveAt(p) ELSE {}

\* C12: replaceAt(path, newSub) invokes the callbacks of the registry at
\* exactly that path, once each with (get(root, path), newSub), iff those
\* two values are not adapter-equal; it invokes no callback of any other
\* path, deeper ones included, whatever changes there; with no registry at
\* that path (no such node, an intermediate node, the empty path) it
\* invokes nothing.
C12_ReplaceAtIsPathTargeted ==
    lastCall.op = "replaceAt" =>
        LET o == getPath(lastCall.old, lastCall.path)
            n == lastCall.arg
        IN /\ \A i \in 1..Len(log) :
                 /\ log[i].cb \in LiveAtExactly(lastCall.path)
                 /\ log[i].old = o /\ log[i].new = n
           /\ \A cb \in LiveAtExactly(lastCall.path) :
                 Count(cb) = IF equal(o, n) THEN 0 ELSE 1

\* replaceAt(a/b, {c: ...}) changed the value at a/b/c: the callback at a/b
\* was invoked, the live callback at a/b/c was not.
C12_Witness ==
    /\ lastCall.op = "replaceAt" /\ lastCall.path = PathAB
    /\ LiveAt(PathABC) # {} /\ LiveAt(PathAB) # {}
    /\ ~empty(getPath(lastCall.old, PathABC))
    /\ ~equal(get(lastCall.arg, "c"), getPath(lastCall.old, PathABC))
    /\ Len(log) = 1

\* Thread t is inside set(newData) or set(path, newNode).
InSet(t) == thr[t].pc \in {"walk", "fire", "dispatch", "blocked"}

\* C13: replaces of different threads serialize: no two threads are inside
\* a replace at once, so their invocations do not interleave; the old
\* values a replace reports are those of the stored root, which the replace
\* before it left; and a callback that only successful replaces have
\* notified is next invoked with, as old value, the new value of the
\* notification it received last.
C13_ConcurrentReplacesSerialize ==
    /\ \A t1, t2 \in Threads : (InSet(t1) /\ InSet(t2)) => t1 = t2
    /\ \A t \in Threads : InReplace(t) =>
          /\ docLock = t
          /\ \A i \in 1..Len(thr[t].visits) :
                getPath(root, thr[t].visits[i].path) = thr[t].visits[i].old
    /\ \A t \in Threads :
          (Dispatching(t) /\ thr[t].op = "replace" /\ notified[CurrentCb(t)].seen)
          => equal(Head(thr[t].visits).old, notified[CurrentCb(t)].new)

\* Thread t2's replace has returned and thread t1's replace is about to
\* invoke a callback that was notified before, with the non-empty value the
\* earlier notification delivered as its old value.
C13_Witness ==
    \E t1, t2 \in Threads :
        /\ t1 # t2
        /\ thr[t2].pc = "returned" /\ thr[t2].op = "replace" /\ ~thr[t2].failed
        /\ Dispatching(t1) /\ thr[t1].op = "replace"
        /\ notified[CurrentCb(t1)].seen
        /\ ~empty(notified[CurrentCb(t1)].new)
        /\ equal(Head(thr[t1].visits).old, notified[CurrentCb(t1)].new)

\* C14: registration excludes replace and replaceAt: while a thread is
\* between the resolution of the path's node (modificationSignal) and the
\* storing of its callback (connect), no other thread is inside a replace
\* or replaceAt of the document.
C14_RegistrationExcludesReplace ==
    \A t1, t2 \in Threads : (thr[t1].pc = "connect" /\ InSet(t2)) => t1 = t2

\* C15: registering an empty callback is inert: the call leaves every
\* registry's storage state and stored callbacks as they were (an Empty one
\* stays Empty, a Single one is not upgraded) and returns a handle that
\* reports not connected; cancelling that handle changes nothing; and no
\* replace ever invokes anything for it.
C15_NullCallbackIsInert ==
    /\ [](\A i \in 1..Len(log) : cbKind[log[i].cb] # "null")
    /\ [][/\ (lastCall'.op = "connect" /\ cbKind'[lastCall'.h] = "null")
             => /\ regs' = regs
                /\ ~connected(handle'[lastCall'.h])
          /\ (lastCall'.op = "cancel" /\ cbKind[lastCall'.h] = "null")
             => /\ UNCHANGED <<regs, sigPtr, nodes, crashed>>
                /\ ~connected(handle[lastCall'.h])]_vars

\* The handle of an empty callback registered on a Single registry with a
\* live callback has been cancelled; the registry is Single and connected.
C15_Witness ==
    \E r \in held :
        /\ lastCall.op = "cancel" /\ cbKind[lastCall.h] = "null"
        /\ regs[r].impl = "single" /\ signalConnected(regs[r])
        /\ \E c \in CbIds : handle[c].sig = r /\ c < lastCall.h

\* C16: registering at an empty path is an inert no-op, not a failure: the
\* call completes, builds no node, and hands back a handle that is not
\* connected; the callback is never invoked.
C16_EmptyPathRegistrationIsInert ==
    /\ lastCall.op = "registerEmptyPath"
          => /\ ~crashed
             /\ ~connected(handle[lastCall.h])
    /\ <<>> \notin nodes
    /\ \A i \in 1..Len(log) : connected(handle[log[i].cb])

\* Callback c is stored in the registry rg.
StoredIn(rg, c) == \E i \in 1..Len(rg.slots) : rg.slots[i].cb = c

\* C17: cancel() on a connected handle whose registry no longer exists --
\* the tree dropped it and no other owner is left -- changes no registry
\* and no stored callback and completes; when the registry exists and
\* stores the handle's callback, cancel() removes that callback and leaves
\* every other registry and callback alone.
C17_HandleResolvesSafely ==
    [][\A c \in CbIds :
          (lastCall'.op = "cancel" /\ lastCall'.h = c /\ connected(handle[c]))
          => IF ~alive(sigPtr, held, handle[c].sig)
             THEN UNCHANGED <<regs, sigPtr, nodes, crashed>>
             ELSE StoredIn(regs[handle[c].sig], c)
                  => /\ ~crashed'
                     /\ CbsOf(regs'[handle[c].sig]) = Without(CbsOf(regs[handle[c].sig]), c)
                     /\ \A r \in SigIds \ {handle[c].sig} : regs'[r] = regs[r]]_vars

\* A handle whose registry died with its callback has been cancelled while
\* a later registry holds a live callback.
C17_Witness ==
    /\ lastCall.op = "cancel" /\ connected(handle[lastCall.h])
    /\ ~alive(sigPtr, held, handle[lastCall.h].sig)
    /\ \E r \in SigIds : alive(sigPtr, held, r) /\ signalConnected(regs[r])
    /\ ~crashed

\* The text a path argument holds: its characters before the first NUL.
RECURSIVE TextOf(_)
TextOf(chars) ==
    IF chars = <<>> \/ Head(chars) = NUL THEN <<>>
    ELSE <<Head(chars)>> \o TextOf(Tail(chars))
\* The maximal non-empty separator-free substrings of a text, as the
\* intervals they occupy, and in order of position.
SegmentSpans(s) ==
    {sp \in (1..Len(s)) \X (1..Len(s)) :
        /\ sp[1] <= sp[2]
        /\ \A k \in sp[1]..sp[2] : s[k] # Sep
        /\ (sp[1] = 1 \/ s[sp[1] - 1] = Sep)
        /\ (sp[2] = Len(s) \/ s[sp[2] + 1] = Sep)}
RECURSIVE InOrder(_, _)
InOrder(s, spans) ==
    IF spans = {} THEN <<>>
    ELSE LET m == CHOOSE x \in spans : \A y \in spans : x[1] <= y[1]
         IN <<SubSeq(s, m[1], m[2])>> \o InOrder(s, spans \ {m})
Segments(s) == InOrder(s, SegmentSpans(s))

\* C18: the keys of a path constructed from a string are, in order, the
\* maximal non-empty separator-free substrings of its text -- leading,
\* trailing and repeated separators give no key, the empty text gives no
\* key -- so the same text with a leading separator gives the same keys.
C18_KeysAreTheSegments ==
    pathKeys.done =>
        /\ pathKeys.keys = Segments(TextOf(pathIn))
        /\ toKeys(<<Sep>> \o pathIn, Sep) = pathKeys.keys

\* The invocations the most recent call made of the callbacks stored at p.
FiredAt(p) == SelectSeq(log, LAMBDA entry : entry.cb \in LiveAt(p))

\* C19: a dispatch -- here the one a completed replace makes at a path
\* whose value changed -- invokes every callback the registry stores
\* exactly once, in the order the registry stores them; that order is the
\* order of registration, and in Multi mode the callback that was
\* registered in Single mode and taken over by the upgrade is the first.
C19_DispatchInRegistrationOrder ==
    \A p \in NodePaths :
        sigPtr[p] # NoSig =>
            LET rg == regs[sigPtr[p]]
            IN /\ \A i, j \in 1..Len(rg.slots) :
                     i < j => rg.slots[i].cb < rg.slots[j].cb
               /\ rg.impl = "multi" =>
                     \A i \in 1..Len(rg.slots) :
                         handle[rg.slots[i].cb].mode = "single" => i = 1
               /\ (ReplaceDone /\ ~equal(getPath(lastCall.old, p), getPath(lastCall.arg, p)))
                     => /\ Len(FiredAt(p)) = Len(rg.slots)
                        /\ \A i \in 1..Len(rg.slots) : FiredAt(p)[i].cb = rg.slots[i].cb

\* A Multi registry that took over the callback registered in Single mode,
\* with a later one behind it, dispatched: the taken-over callback first.
C19_Witness ==
    /\ ReplaceDone
    /\ sigPtr[PathAB] # NoSig
    /\ LET rg == regs[sigPtr[PathAB]]
       IN /\ rg.impl = "multi"
          /\ Len(rg.slots) >= 2
          /\ handle[rg.slots[1].cb].mode = "single"
          /\ Len(log) = Len(rg.slots)
          /\ \A i \in 1..Len(rg.slots) : log[i].cb = rg.slots[i].cb

\* A registry is alive while the tree or a client holds a pointer to it.
Alive(sp, hd, r) == r \in hd \/ \E p \in NodePaths : sp[p] = r
\* The step registers a non-empty callback with registry r.
Arrives(r) ==
    /\ nextCb' = nextCb + 1
    /\ connected(handle'[nextCb])
    /\ handle'[nextCb].sig = r

\* C20: the storage state of one registry.  It leaves Empty only for
\* Single, and only by a non-empty registration; a Single registry becomes
\* Multi exactly in a step that registers with it while it holds a
\* callback, and otherwise stays Single; a Multi registry stays Multi in
\* every step after which it is still alive, whatever is registered or
\* cancelled.
C20_StorageStateMachine ==
    [][\A r \in SigIds :
          Alive(sigPtr', held', r) =>
              /\ regs[r].impl = "none" =>
                    IF Arrives(r) THEN regs'[r].impl = "single"
                    ELSE regs'[r].impl = "none"
              /\ regs[r].impl = "single" =>
                    IF Arrives(r) /\ implConnected(regs[r])
                    THEN regs'[r].impl = "multi"
                    ELSE regs'[r].impl = "single"
              /\ regs[r].impl = "multi" => regs'[r].impl = "multi"]_vars

\* A Multi registry all of whose callbacks had been cancelled took a new
\* registration and is Multi still, holding that one callback.
C20_Witness ==
    /\ lastCall.op = "connect"
    /\ lastCall.pre.impl = "multi"
    /\ lastCall.pre.slots = <<>>
    /\ connected(handle[lastCall.h])
    /\ regs[handle[lastCall.h].sig].impl = "multi"
    /\ Len(regs[handle[lastCall.h].sig].slots) = 1

\* Callback c was registered at path p with a connected handle and its
\* registry stores it still: it has not been cancelled.
RegisteredAt(c, p) ==
    /\ c \in 1..(nextCb - 1)
    /\ connected(handle[c])
    /\ regPath[handle[c].sig] = p
    /\ StoredIn(regs[handle[c].sig], c)

\* C21: no registration is lost: a completed replace that changes the
\* value at a path has invoked every callback that was registered at that
\* path with a connected handle and has not been cancelled -- also when an
\* earlier replace found the path's registry without a callback and dropped
\* the tree's pointer to it before the callback was stored through a
\* pointer obtained earlier.
C21_NoLostRegistration ==
    \A p \in NodePaths :
        (ReplaceDone /\ ~equal(getPath(lastCall.old, p), getPath(lastCall.arg, p)))
            => \A c \in CbIds : RegisteredAt(c, p) => Fired(c)

\* C22: cancel() on handle h removes no callback of another registration:
\* every callback other than h's that the registry stored before the call
\* it stores after it -- also when h's own callback had been cancelled
\* before and a later registration stored a new callback at the address
\* h's slot id names.
C22_CancelRemovesOnlyItsOwn ==
    \A h \in CbIds :
        Cancelled(h) =>
            \A c \in CbIds \ {h} :
                StoredIn(lastCall.pre, c) => StoredIn(CancelReg, c)

\* Thread t is inside a call it has not yet left.
InCall(t) == thr[t].pc \notin {"idle", "returned"}
\* Thread t holds the lock of a registry.
HoldsRegistry(t) == \E r \in SigIds : sigLock[r] = t

C24_ReplaceAtSkipsAncestors ==
    /\ lastCall.op = "replaceAt" =>
          \A c \in CbIds : Fired(c) => ~IsProperPrefix(PathOf(c), lastCall.path)
    /\ ReplaceDone =>
          \A p \in NodePaths : \A cb \in LiveAt(p) :
              Fired(cb) <=> ~equal(getPath(lastCall.old, p), getPath(lastCall.arg, p))

\* replaceAt(a/b/c, v) changed the stored value at a/b/c, and with it the
\* value seen at a/b: the callback at a/b/c was invoked, the live callback
\* at a/b was not.
C24_Witness ==
    /\ lastCall.op = "replaceAt" /\ lastCall.path = PathABC
    /\ ~equal(getPath(root, PathAB), getPath(lastCall.old, PathAB))
    /\ \E x \in LiveAt(PathAB), y \in LiveAt(PathABC) : ~Fired(x) /\ Fired(y)

\* The calls that move from a Connection or drop it.
HandleOps == {"moveConstruct", "moveAssign", "discard"}
\* The registry the tree holds for a/b.
RegistryAB == IF sigPtr[PathAB] = NoSig THEN NoImpl ELSE regs[sigPtr[PathAB]]

\* C25: a registration outlives its handle.  Moving from a Connection or
\* dropping it, without cancel(), completes and leaves the registry's
\* stored callbacks as they were, and the Connection moved from is not
\* connected any more; a completed replace that changes the value at the
\* path invokes every stored callback once, whatever became of its handle;
\* and cancel() on the Connection that holds a stored callback's slot id
\* removes that callback.
C25_RegistrationOutlivesHandle ==
    /\ lastCall.op \in HandleOps =>
          /\ ~crashed
          /\ ~connected(handle[lastCall.h])
          /\ lastCall.pre.slots # <<>> => RegistryAB = lastCall.pre
    /\ (ReplaceDone /\ ~equal(getPath(lastCall.old, PathAB), getPath(lastCall.arg, PathAB)))
          => \A c \in CbIds : StoredIn(RegistryAB, c) => Count(c) = 1
    /\ (lastCall.op = "cancel" /\ connected(handle[lastCall.h]))
          => \A i \in 1..Len(RegistryAB.slots) :
                 RegistryAB.slots[i].addr # handle[lastCall.h].slot

====
